---- MODULE Spec2Model ----
(***************************************************************************)
(* Model of data_generator.py: the command-line entry point main and the   *)
(* class EventDataGenerator, which writes one weekly zip archive per week, *)
(* each holding one in-memory daily zip per day, each holding JSON part    *)
(* files of randomly drawn events.                                          *)
(*                                                                         *)
(* Values:                                                                 *)
(*   date       its proleptic Gregorian ordinal (date.toordinal())          *)
(*   datetime   [ord |-> ordinal of the date, sec |-> second of the day]    *)
(*   str        a TLA+ string; the --start-date argument, which the code    *)
(*              parses, is a sequence of one-character strings              *)
(*   dict       a function from its keys to its values                      *)
(*   zip        the sequence of its entries [name, data], in write order    *)
(*   JSON text  a sequence of tokens: "[", the array's objects, "]"         *)
(***************************************************************************)
EXTENDS Integers, Sequences, FiniteSets, TLC

VARIABLES
    args,             \* argparse namespace: [count, output_dir, start_date]
    rng,              \* state of the shared random module
    days_per_week,    \* constructor parameter (self.days_per_week)
    parts_per_day,    \* constructor parameter (self.parts_per_day)
    events_per_part,  \* constructor parameter (self.events_per_part)
    start_date,       \* self.start_date, a date
    pc,               \* position of the single thread of control
    week_i,           \* i of the loop in run
    day_i,            \* i of the loop in _generate_week_zip
    part_i,           \* i of the loop in _generate_day_data
    week_start_date,  \* argument of the current _generate_week_zip call
    master_zip_path,  \* path of the weekly archive being written
    current_date,     \* argument of the current _generate_day_data call
    current_time,     \* timestamp cursor of _generate_day_data
    daily_zip,        \* entries of the in-memory daily zip being written
    dirs,             \* directories on disk
    fs,               \* files on disk: path -> [entries, open]
    out,              \* lines printed to standard output
    exit_status,      \* status the process exits with
    calls             \* arguments of the _generate_week_zip calls made so far

vars == <<args, rng, days_per_week, parts_per_day, events_per_part, start_date,
          pc, week_i, day_i, part_i, week_start_date, master_zip_path,
          current_date, current_time, daily_zip, dirs, fs, out, exit_status,
          calls>>

(***************************************************************************)
(* Bounds of the model.                                                    *)
(***************************************************************************)
MaxWeeks == 2
MaxDays == 2
MaxParts == 2
MaxEvents == 2
MaxTotalEvents == 4
StreamPeriod == 2
MaxYearWeeks == 53
LongDayParts == 15

\* The constructor's defaults.
DefaultDaysPerWeek == 7
DefaultPartsPerDay == 5
DefaultEventsPerPart == 100

(***************************************************************************)
(* datetime.date: the calendar arithmetic behind strptime, date + timedelta,*)
(* isocalendar and str(date).                                              *)
(***************************************************************************)
IsLeap(y) == y % 4 = 0 /\ (y % 100 # 0 \/ y % 400 = 0)

DaysBeforeYear(y) ==
    (y - 1) * 365 + ((y - 1) \div 4) - ((y - 1) \div 100) + ((y - 1) \div 400)

DaysInMonth(y, m) ==
    IF m = 2 THEN (IF IsLeap(y) THEN 29 ELSE 28)
    ELSE IF m \in {4, 6, 9, 11} THEN 30 ELSE 31

RECURSIVE DaysBeforeMonth(_, _)
DaysBeforeMonth(y, m) ==
    IF m = 1 THEN 0 ELSE DaysBeforeMonth(y, m - 1) + DaysInMonth(y, m - 1)

Ymd2Ord(y, m, d) == DaysBeforeYear(y) + DaysBeforeMonth(y, m) + d

\* date.fromordinal: the year, month and day of ordinal n.
Ord2Ymd(n) ==
    LET n0 == n - 1
        n400 == n0 \div 146097
        r400 == n0 % 146097
        n100 == r400 \div 36524
        r100 == r400 % 36524
        n4 == r100 \div 1461
        r4 == r100 % 1461
        n1 == r4 \div 365
        r1 == r4 % 365
        year == n400 * 400 + 1 + n100 * 100 + n4 * 4 + n1
    IN  IF n1 = 4 \/ n100 = 4 THEN <<year - 1, 12, 31>>
        ELSE LET month == CHOOSE m \in 1..12 :
                              /\ DaysBeforeMonth(year, m) <= r1
                              /\ r1 < DaysBeforeMonth(year, m) + DaysInMonth(year, m)
             IN  <<year, month, r1 - DaysBeforeMonth(year, month) + 1>>

\* The ordinal of the Monday that starts ISO week 1 of a year.
IsoWeek1Monday(year) ==
    LET firstday == Ymd2Ord(year, 1, 1)
        firstweekday == (firstday + 6) % 7
        week1monday == firstday - firstweekday
    IN  IF firstweekday > 3 THEN week1monday + 7 ELSE week1monday

\* date.isocalendar(): <<ISO year, ISO week, ISO weekday>>.
IsoCalendar(d) ==
    LET year == Ord2Ymd(d)[1]
        w1 == IsoWeek1Monday(year)
        week == (d - w1) \div 7
        day == (d - w1) % 7
    IN  IF week < 0
        THEN LET p1 == IsoWeek1Monday(year - 1)
             IN  <<year - 1, ((d - p1) \div 7) + 1, ((d - p1) % 7) + 1>>
        ELSE IF week >= 52 /\ d >= IsoWeek1Monday(year + 1)
        THEN <<year + 1, 1, day + 1>>
        ELSE <<year, week + 1, day + 1>>

\* Zero-padded decimal rendering, as in {:03d} and in date.isoformat().
RECURSIVE ZeroPad(_, _)
ZeroPad(n, width) ==
    IF width <= 1 \/ n >= 1000 THEN ToString(n)
    ELSE IF width = 2 THEN (IF n < 10 THEN "0" \o ToString(n) ELSE ToString(n))
    ELSE IF width = 3 THEN (IF n < 100 THEN "0" \o ZeroPad(n, 2) ELSE ToString(n))
    ELSE IF n < 1000 THEN "0" \o ZeroPad(n, 3) ELSE ToString(n)

\* str(date): YYYY-MM-DD.
DateStr(d) ==
    LET ymd == Ord2Ymd(d)
    IN  ZeroPad(ymd[1], 4) \o "-" \o ZeroPad(ymd[2], 2) \o "-" \o ZeroPad(ymd[3], 2)

(***************************************************************************)
(* datetime.strptime(text, "%Y-%m-%d").date() on the text of --start-date. *)
(* The format matches four digits, "-", one or two digits, "-", one or two *)
(* digits; the month must be 1..12 and the day 1..31 for the format to     *)
(* match, and the day must exist in the month for the date to be built.    *)
(* Anything else raises ValueError.                                        *)
(***************************************************************************)
DigitChars == {"0", "1", "2", "3", "4", "5", "6", "7", "8", "9"}

DigitVal(c) == CHOOSE n \in 0..9 : ToString(n) = c

RECURSIVE ToNum(_)
ToNum(cs) ==
    IF cs = <<>> THEN 0
    ELSE 10 * ToNum(SubSeq(cs, 1, Len(cs) - 1)) + DigitVal(cs[Len(cs)])

Strptime(text) ==
    LET dashes == {k \in 1..Len(text) : text[k] = "-"}
        d2 == CHOOSE k \in dashes : k > 5
        matches ==
            /\ Cardinality(dashes) = 2
            /\ 5 \in dashes
            /\ \E k \in dashes : k \in {7, 8}
            /\ Len(text) - d2 \in {1, 2}
            /\ \A k \in (1..Len(text)) \ dashes : text[k] \in DigitChars
        y == ToNum(SubSeq(text, 1, 4))
        m == ToNum(SubSeq(text, 6, d2 - 1))
        d == ToNum(SubSeq(text, d2 + 1, Len(text)))
    IN  IF matches /\ y >= 1 /\ m \in 1..12 /\ d \in 1..31 /\ d <= DaysInMonth(y, m)
        THEN [ok |-> TRUE, date |-> Ymd2Ord(y, m, d)]
        ELSE [ok |-> FALSE, date |-> 0]

(***************************************************************************)
(* Class attributes and the draws of the random module.                    *)
(***************************************************************************)
CUSTOMER_IDS == [i \in 1..100 |-> "c" \o ZeroPad(i, 3)]
PRODUCT_IDS == [i \in 1..50 |-> "p" \o ZeroPad(i, 3)]
EVENT_TYPES == <<"view_product", "add_to_cart", "purchase">>

\* What one call of random.randint(1, 3) for the quantity can return.
Quantities == 1..3

\* The draws one event consumes: randint(1, 60) for the time step, choices
\* for the event type, choice for the customer and for the product, and
\* randint(1, 3) for a purchase's quantity. The model follows the lowest and
\* the highest time step, customer and product, with every event type and
\* every quantity; the quantity of a draw that is not a purchase is never
\* read.
Draws ==
    { [seconds |-> x[1], customer |-> x[2], product |-> x[3],
       event_type |-> EVENT_TYPES[t], quantity |-> q] :
         x \in {<<1, 1, 1>>, <<60, 100, 50>>},
         t \in DOMAIN EVENT_TYPES, q \in Quantities }

UsedDraws == {d \in Draws : d.event_type # "purchase" => d.quantity = 1}

\* The random module is seeded once, when it is imported: from then on every
\* draw is determined by its state. rng holds the draws to come (cyc,
\* repeated when exhausted) and the number already made (pos); DrawAt
\* below reads it.
(***************************************************************************)
(* datetime arithmetic and rendering.                                      *)
(***************************************************************************)
SecondsPerDay == 86400

\* datetime.combine(date_val, datetime.min.time())
Midnight(d) == [ord |-> d, sec |-> 0]

\* current_time + timedelta(seconds = k)
AddSeconds(t, k) ==
    [ord |-> t.ord + ((t.sec + k) \div SecondsPerDay),
     sec |-> (t.sec + k) % SecondsPerDay]

\* datetime.isoformat(): the fields of YYYY-MM-DDTHH:MM:SS, in order.
IsoFormat(t) ==
    LET ymd == Ord2Ymd(t.ord)
    IN  <<ymd[1], ymd[2], ymd[3],
          t.sec \div 3600, (t.sec % 3600) \div 60, t.sec % 60>>

(***************************************************************************)
(* EventDataGenerator._create_random_event                                 *)
(***************************************************************************)
\* Variant: the quantity is added to every event that is not a view.
HasQuantityUnlessView(event_type) == event_type # "view_product"

HasQuantity(event_type) == event_type = "purchase"

CreateRandomEvent(t, draw) ==
    LET event == [timestamp |-> IsoFormat(t),
                  customer_id |-> CUSTOMER_IDS[draw.customer],
                  event_type |-> draw.event_type,
                  product_id |-> PRODUCT_IDS[draw.product]]
    IN  IF HasQuantity(draw.event_type)
        THEN event @@ ("quantity" :> draw.quantity)
        ELSE event

(***************************************************************************)
(* json.dumps of a list and json.loads of its text.                        *)
(***************************************************************************)
JsonDumps(list) == <<"[">> \o list \o <<"]">>

JsonLoads(text) == SubSeq(text, 2, Len(text) - 1)

(***************************************************************************)
(* Names.                                                                  *)
(***************************************************************************)
\* Variant: isocalendar()[2], the ISO weekday.
WeekNumberWrongField(d) == IsoCalendar(d)[3]

\* week_start_date.isocalendar()[1]
WeekNumber(d) == IsoCalendar(d)[2]

\* Variant: the week number is left out of the name.
MasterZipNameNoNumber(d) == "events_week_.zip"

MasterZipName(d) == "events_week_" \o ToString(WeekNumber(d)) \o ".zip"

\* os.path.join(self.output_dir, master_zip_name)
PathJoin(dir, name) == dir \o "/" \o name

DailyZipName(d) == "events_" \o DateStr(d) \o ".zip"

PartName(i) == "part-" \o ZeroPad(i + 1, 3) \o ".json"

\* Variant: timedelta(days = i).
WeekStartByDays(sd, i) == sd + i

\* self.start_date + timedelta(weeks = i)
WeekStart(sd, i) == sd + 7 * i

\* week_start_date + timedelta(days = i)
DayOfWeek(wsd, i) == wsd + i

(***************************************************************************)
(* The inner loop of _generate_day_data: n events from cursor t, drawing   *)
(* from r. Gives the events, the cursor and the random state afterwards.   *)
(* The k-th event of the loop uses the k-th draw from r, and its timestamp *)
(* is the cursor advanced by the time steps of the draws 1..k.             *)
(***************************************************************************)
\* The k-th draw to come.
DrawAt(r, k) == r.cyc[((r.pos + k - 1) % Len(r.cyc)) + 1]

\* The sum of the time steps of the draws lo..hi to come.
RECURSIVE SumSeconds(_, _, _)
SumSeconds(r, lo, hi) ==
    IF lo > hi THEN 0
    ELSE IF lo = hi THEN DrawAt(r, lo).seconds
    ELSE LET mid == (lo + hi) \div 2
         IN  SumSeconds(r, lo, mid) + SumSeconds(r, mid + 1, hi)

\* current_time after k passes of current_time += timedelta(seconds = ...).
CursorAfter(t, r, k) == AddSeconds(t, SumSeconds(r, 1, k))

EventsOfPart(n, t, r) ==
    [events_list |-> [k \in 1..n |-> CreateRandomEvent(CursorAfter(t, r, k),
                                                      DrawAt(r, k))],
     current_time |-> CursorAfter(t, r, n),
     rng |-> [r EXCEPT !.pos = @ + n]]

(***************************************************************************)
(* Initial states: the command line, the constructor's keyword parameters  *)
(* (7, 5 and 100 unless given), the seeded random module, an output        *)
(* directory that does not exist yet.                                      *)
(***************************************************************************)
Chars_2023_10_23 == <<"2", "0", "2", "3", "-", "1", "0", "-", "2", "3">>
Chars_2023_12_28 == <<"2", "0", "2", "3", "-", "1", "2", "-", "2", "8">>
Chars_2023_01_02 == <<"2", "0", "2", "3", "-", "0", "1", "-", "0", "2">>
Chars_2020_01_06 == <<"2", "0", "2", "0", "-", "0", "1", "-", "0", "6">>
Chars_2023_13_40 == <<"2", "0", "2", "3", "-", "1", "3", "-", "4", "0">>
Chars_23_10_2023 == <<"2", "3", "/", "1", "0", "/", "2", "0", "2", "3">>

InvalidStartDates == {Chars_2023_13_40, Chars_23_10_2023}

Max(a, b) == IF a >= b THEN a ELSE b

\* The number of events a run of count weeks creates when nothing fails (that
\* of one week when count is not positive).
TotalEvents(count, dpw, ppd, epp) == Max(count, 1) * dpw * ppd * epp

InitWith(count, text, dpw, ppd, epp, cyc) ==
    /\ args = [count |-> count, output_dir |-> "data", start_date |-> text]
    /\ rng = [cyc |-> cyc, pos |-> 0]
    /\ days_per_week = dpw
    /\ parts_per_day = ppd
    /\ events_per_part = epp
    /\ start_date = 0
    /\ pc = "main"
    /\ week_i = 0
    /\ day_i = 0
    /\ part_i = 0
    /\ week_start_date = 0
    /\ master_zip_path = ""
    /\ current_date = 0
    /\ current_time = Midnight(0)
    /\ daily_zip = <<>>
    /\ dirs = {}
    /\ fs = [p \in {} |-> 0]
    /\ out = <<>>
    /\ exit_status = 0
    /\ calls = <<>>

\* Small runs, every random stream of period StreamPeriod.
Init ==
    \E count \in -1..MaxWeeks, text \in {Chars_2023_10_23} \cup InvalidStartDates,
       dpw \in 1..MaxDays, ppd \in 1..MaxParts, epp \in 1..MaxEvents,
       cyc \in [1..StreamPeriod -> UsedDraws] :
        /\ TotalEvents(count, dpw, ppd, epp) <= MaxTotalEvents
        /\ InitWith(count, text, dpw, ppd, epp, cyc)

\* The runs main makes: the constructor's defaults, up to two weeks, a
\* random stream that repeats one draw with the longest time step.
InitDefaults ==
    \E count \in 0..2,
       text \in {Chars_2023_10_23, Chars_2023_12_28, Chars_2023_13_40},
       cyc \in [1..1 -> {d \in UsedDraws : d.seconds = 60}] :
        InitWith(count, text, DefaultDaysPerWeek, DefaultPartsPerDay,
                 DefaultEventsPerPart, cyc)

\* One week of one long day: LongDayParts parts of the default size, or one
\* part less, and a random stream that repeats one draw.
InitLongDay ==
    \E text \in {Chars_2023_10_23, Chars_2023_13_40},
       ppd \in (LongDayParts - 1)..LongDayParts, cyc \in [1..1 -> UsedDraws] :
        InitWith(1, text, 1, ppd, DefaultEventsPerPart, cyc)

\* Runs of about a year of weeks, each week one day of one part of one event.
InitYear ==
    \E count \in {1} \cup ((MaxYearWeeks - 3)..MaxYearWeeks),
       text \in {Chars_2023_01_02, Chars_2023_12_28, Chars_2020_01_06,
                 Chars_2023_13_40},
       cyc \in [1..1 -> UsedDraws] :
        InitWith(count, text, 1, 1, 1, cyc)

(***************************************************************************)
(* main                                                                    *)
(***************************************************************************)
\* main, lines 197-203: the start date does not parse.
MainInvalidDate ==
    /\ pc = "main"
    /\ ~Strptime(args.start_date).ok
    /\ out' = Append(out, "Error: Invalid date format. Please use YYYY-MM-DD.")
    /\ pc' = "exited"
    /\ UNCHANGED <<args, rng, days_per_week, parts_per_day, events_per_part,
                   start_date, week_i, day_i, part_i, week_start_date,
                   master_zip_path, current_date, current_time, daily_zip,
                   dirs, fs, exit_status, calls>>

\* main, lines 197-200 and 205, and __init__, lines 49-53.
MainParsed ==
    /\ pc = "main"
    /\ Strptime(args.start_date).ok
    /\ start_date' = Strptime(args.start_date).date
    /\ pc' = "init"
    /\ UNCHANGED <<args, rng, days_per_week, parts_per_day, events_per_part,
                   week_i, day_i, part_i, week_start_date, master_zip_path,
                   current_date, current_time, daily_zip, dirs, fs, out,
                   exit_status, calls>>

\* __init__, line 55: os.makedirs(self.output_dir, exist_ok=True).
Makedirs ==
    /\ pc = "init"
    /\ dirs' = dirs \cup {args.output_dir}
    /\ pc' = "run"
    /\ UNCHANGED <<args, rng, days_per_week, parts_per_day, events_per_part,
                   start_date, week_i, day_i, part_i, week_start_date,
                   master_zip_path, current_date, current_time, daily_zip,
                   fs, out, exit_status, calls>>

\* os.makedirs raises OSError: nothing catches it.
MakedirsFails ==
    /\ pc = "init"
    /\ pc' = "crashed"
    /\ exit_status' = 1
    /\ UNCHANGED <<args, rng, days_per_week, parts_per_day, events_per_part,
                   start_date, week_i, day_i, part_i, week_start_date,
                   master_zip_path, current_date, current_time, daily_zip,
                   dirs, fs, out, calls>>

(***************************************************************************)
(* EventDataGenerator.run                                                  *)
(***************************************************************************)
\* run, lines 149-152.
RunStart ==
    /\ pc = "run"
    /\ out' = Append(out, "Starting data generation for "
                            \o ToString(args.count) \o " week(s)...")
    /\ week_i' = 0
    /\ pc' = "loop_weeks"
    /\ UNCHANGED <<args, rng, days_per_week, parts_per_day, events_per_part,
                   start_date, day_i, part_i, week_start_date, master_zip_path,
                   current_date, current_time, daily_zip, dirs, fs,
                   exit_status, calls>>

\* for i in range(num_weeks)
MoreWeeks == week_i < args.count

\* run, lines 158-160: the loop is over.
RunEnd ==
    /\ pc = "loop_weeks"
    /\ ~MoreWeeks
    /\ out' = Append(out, "All data generation complete.")
    /\ pc' = "exited"
    /\ UNCHANGED <<args, rng, days_per_week, parts_per_day, events_per_part,
                   start_date, week_i, day_i, part_i, week_start_date,
                   master_zip_path, current_date, current_time, daily_zip,
                   dirs, fs, exit_status, calls>>

(***************************************************************************)
(* EventDataGenerator._generate_week_zip                                   *)
(***************************************************************************)
\* zipfile.ZipFile(path, "w"): the file is created, or truncated, and open.
OpenForWrite(files, path) ==
    [p \in DOMAIN files \cup {path} |->
        IF p = path THEN [entries |-> <<>>, open |-> TRUE] ELSE files[p]]

\* ZipFile.writestr(name, data)
WriteStr(entries, name, data) == Append(entries, [name |-> name, data |-> data])

\* run, lines 154-156, and _generate_week_zip, lines 122-130.
WeekBegin ==
    /\ pc = "loop_weeks"
    /\ MoreWeeks
    /\ LET wsd == WeekStart(start_date, week_i)
           path == PathJoin(args.output_dir, MasterZipName(wsd))
       IN  /\ week_start_date' = wsd
           /\ calls' = Append(calls, wsd)
           /\ master_zip_path' = path
           /\ out' = Append(out, "Generating master zip: '"
                                   \o MasterZipName(wsd) \o "'...")
           /\ fs' = OpenForWrite(fs, path)
    /\ day_i' = 0
    /\ pc' = "loop_days"
    /\ UNCHANGED <<args, rng, days_per_week, parts_per_day, events_per_part,
                   start_date, week_i, part_i, current_date, current_time,
                   daily_zip, dirs, exit_status>>

\* zipfile.ZipFile(path, "w") raises OSError: no file is created, and
\* nothing catches the exception.
WeekOpenFails ==
    /\ pc = "loop_weeks"
    /\ MoreWeeks
    /\ LET wsd == WeekStart(start_date, week_i)
       IN  /\ week_start_date' = wsd
           /\ calls' = Append(calls, wsd)
           /\ master_zip_path' = PathJoin(args.output_dir, MasterZipName(wsd))
           /\ out' = Append(out, "Generating master zip: '"
                                   \o MasterZipName(wsd) \o "'...")
    /\ pc' = "crashed"
    /\ exit_status' = 1
    /\ UNCHANGED <<args, rng, days_per_week, parts_per_day, events_per_part,
                   start_date, week_i, day_i, part_i, current_date,
                   current_time, daily_zip, dirs, fs>>

\* for i in range(self.days_per_week)
MoreDays == day_i < days_per_week

\* _generate_week_zip, lines 131-135, and _generate_day_data, lines 92-99.
DayBegin ==
    /\ pc = "loop_days"
    /\ MoreDays
    /\ current_date' = DayOfWeek(week_start_date, day_i)
    /\ out' = Append(out, "    Generating data for "
                            \o DateStr(current_date') \o "...")
    /\ daily_zip' = <<>>
    /\ current_time' = Midnight(current_date')
    /\ part_i' = 0
    /\ pc' = "loop_parts"
    /\ UNCHANGED <<args, rng, days_per_week, parts_per_day, events_per_part,
                   start_date, week_i, day_i, week_start_date, master_zip_path,
                   dirs, fs, exit_status, calls>>

\* The with block of _generate_week_zip is left: the archive is closed.
CloseZip(files, path) == [files EXCEPT ![path].open = FALSE]

\* _generate_week_zip, lines 128-140: the loop is over, the archive is
\* closed and reported; run, line 154: the next i.
WeekEnd ==
    /\ pc = "loop_days"
    /\ ~MoreDays
    /\ fs' = CloseZip(fs, master_zip_path)
    /\ out' = Append(out, "Successfully generated " \o master_zip_path)
    /\ week_i' = week_i + 1
    /\ pc' = "loop_weeks"
    /\ UNCHANGED <<args, rng, days_per_week, parts_per_day, events_per_part,
                   start_date, day_i, part_i, week_start_date, master_zip_path,
                   current_date, current_time, daily_zip, dirs, exit_status,
                   calls>>

(***************************************************************************)
(* EventDataGenerator._generate_day_data                                   *)
(***************************************************************************)
\* Variant: range(self.parts_per_day + 1).
MorePartsOffByOne == part_i <= parts_per_day

\* for i in range(self.parts_per_day)
MoreParts == part_i < parts_per_day

\* Variant: the cursor is set back to midnight for each part.
PartStartTimeReset(t) == Midnight(t.ord)

\* The cursor a part starts from: current_time is assigned once, before the
\* loop over the parts, and only advanced inside it.
PartStartTime(t) == t

\* _generate_day_data, lines 101-111: one part file.
GenPart ==
    /\ pc = "loop_parts"
    /\ MoreParts
    /\ LET g == EventsOfPart(events_per_part, PartStartTime(current_time), rng)
       IN  /\ daily_zip' = WriteStr(daily_zip, PartName(part_i),
                                    JsonDumps(g.events_list))
           /\ current_time' = g.current_time
           /\ rng' = g.rng
    /\ part_i' = part_i + 1
    /\ UNCHANGED <<args, days_per_week, parts_per_day, events_per_part,
                   start_date, pc, week_i, day_i, week_start_date,
                   master_zip_path, current_date, dirs, fs, out, exit_status,
                   calls>>

\* _generate_day_data, line 113, and _generate_week_zip, line 137: the daily
\* zip's bytes become one entry of the weekly archive.
DayEnd ==
    /\ pc = "loop_parts"
    /\ ~MoreParts
    /\ fs' = [fs EXCEPT ![master_zip_path].entries =
                 WriteStr(@, DailyZipName(current_date), daily_zip)]
    /\ day_i' = day_i + 1
    /\ pc' = "loop_days"
    /\ UNCHANGED <<args, rng, days_per_week, parts_per_day, events_per_part,
                   start_date, week_i, part_i, week_start_date, master_zip_path,
                   current_date, current_time, daily_zip, dirs, out,
                   exit_status, calls>>

\* master_zip.writestr raises OSError (line 137): the with statement closes
\* the archive, which stays where it was opened, and the exception leaves
\* _generate_week_zip, run and main uncaught.
DayWriteFails ==
    /\ pc = "loop_parts"
    /\ ~MoreParts
    /\ fs' = CloseZip(fs, master_zip_path)
    /\ pc' = "crashed"
    /\ exit_status' = 1
    /\ UNCHANGED <<args, rng, days_per_week, parts_per_day, events_per_part,
                   start_date, week_i, day_i, part_i, week_start_date,
                   master_zip_path, current_date, current_time, daily_zip,
                   dirs, out, calls>>

Next ==
    \/ MainInvalidDate
    \/ MainParsed
    \/ Makedirs
    \/ MakedirsFails
    \/ RunStart
    \/ RunEnd
    \/ WeekBegin
    \/ WeekOpenFails
    \/ DayBegin
    \/ WeekEnd
    \/ GenPart
    \/ DayEnd
    \/ DayWriteFails

Spec == Init /\ [][Next]_vars

SpecDefaults == InitDefaults /\ [][Next]_vars

SpecLongDay == InitLongDay /\ [][Next]_vars

SpecYear == InitYear /\ [][Next]_vars

(***************************************************************************)
(* What the properties below read.                                         *)
(***************************************************************************)
Range(f) == {f[k] : k \in DOMAIN f}

Terminated == pc \in {"exited", "crashed"}

CompletionLine == "All data generation complete."

ErrorLine == "Error: Invalid date format. Please use YYYY-MM-DD."

\* The daily archives inside the weekly archives on disk.
DailyOnDisk == UNION {Range(fs[p].entries) : p \in DOMAIN fs}

\* The events of a daily zip, in part-then-event order.
RECURSIVE EventsOfDay(_)
EventsOfDay(zip) ==
    IF zip = <<>> THEN <<>>
    ELSE EventsOfDay(SubSeq(zip, 1, Len(zip) - 1)) \o JsonLoads(zip[Len(zip)].data)

\* The dates a run has generated or is generating.
GeneratedDates ==
    {DayOfWeek(calls[k], i) : k \in DOMAIN calls, i \in 0..(days_per_week - 1)}

\* The date a daily archive is named after.
DateOfDaily(name) == CHOOSE d \in GeneratedDates : DailyZipName(d) = name

\* Seconds from the midnight of date d to a rendered timestamp.
TsSeconds(d, ts) ==
    (Ymd2Ord(ts[1], ts[2], ts[3]) - d) * SecondsPerDay
        + ts[4] * 3600 + ts[5] * 60 + ts[6]

\* Every daily zip there is, with its date: those on disk and the one in memory.
DailyWithDate ==
    {[date |-> DateOfDaily(e.name), zip |-> e.data] : e \in DailyOnDisk}
    \cup (IF pc = "loop_parts" THEN {[date |-> current_date, zip |-> daily_zip]}
          ELSE {})

AllEvents == UNION {Range(EventsOfDay(x.zip)) : x \in DailyWithDate}

(***************************************************************************)
(* C1: after a completed run every weekly archive on disk has exactly      *)
(* days_per_week entries, each of these daily archives has exactly         *)
(* parts_per_day entries, and each part file parses to exactly             *)
(* events_per_part event objects.                                          *)
(***************************************************************************)
C1_ArchiveShape ==
    (pc = "exited" /\ calls # <<>>) =>
        \A p \in DOMAIN fs :
            /\ Len(fs[p].entries) = days_per_week
            /\ \A day \in Range(fs[p].entries) :
                  /\ Len(day.data) = parts_per_day
                  /\ \A part \in Range(day.data) :
                        Len(JsonLoads(part.data)) = events_per_part

C1_Witness ==
    /\ pc = "exited"
    /\ days_per_week = 2
    /\ parts_per_day = 2
    /\ \E p \in DOMAIN fs : Len(fs[p].entries) = 2

(***************************************************************************)
(* C9: in every daily archive the first event is 1 to 60 seconds after     *)
(* the midnight of the archive's date and every later event, in            *)
(* part-then-event order and across part boundaries, is 1 to 60 seconds    *)
(* after the one before it: the cursor starts at midnight for each day,    *)
(* is advanced before every event and is never reset between parts.        *)
(***************************************************************************)
C9_CursorAdvances ==
    \A x \in DailyWithDate :
        LET ev == EventsOfDay(x.zip)
        IN  \A k \in DOMAIN ev :
                LET before == IF k = 1 THEN 0
                              ELSE TsSeconds(x.date, ev[k - 1].timestamp)
                IN  TsSeconds(x.date, ev[k].timestamp) - before \in 1..60

C9_Witness ==
    \E p \in DOMAIN fs :
        /\ Len(fs[p].entries) = 2
        /\ Len(fs[p].entries[1].data) = 2
        /\ Len(fs[p].entries[2].data) = 2

(***************************************************************************)
(* C10: every generated event has one of the three event types, carries a  *)
(* quantity exactly when it is a purchase, and the quantity is 1, 2 or 3.  *)
(***************************************************************************)
C10_EventSchema ==
    \A e \in AllEvents :
        /\ e.event_type \in {"view_product", "add_to_cart", "purchase"}
        /\ ("quantity" \in DOMAIN e) <=> (e.event_type = "purchase")
        /\ ("quantity" \in DOMAIN e) => (e.quantity \in 1..3)

C10_Witness ==
    /\ pc = "exited"
    /\ \E e \in AllEvents : e.event_type = "purchase" /\ e.quantity = 3
    /\ \E e \in AllEvents : e.event_type = "add_to_cart"

(***************************************************************************)
(* C7: weeks are processed in order and one at a time. The k-th call of    *)
(* _generate_week_zip is for i = k - 1 and start_date + 7 * i days, it is  *)
(* made only when every archive on disk is closed and complete, at most    *)
(* num_weeks calls are made, and once the run has failed no further week   *)
(* is started and the completion line is never printed.                    *)
(***************************************************************************)
C7_Sequential ==
    [][ /\ (calls' # calls) =>
              /\ Len(calls) = week_i
              /\ week_i < args.count
              /\ calls' = Append(calls, start_date + 7 * week_i)
              /\ pc # "crashed"
              /\ \A p \in DOMAIN fs :
                    ~fs[p].open /\ Len(fs[p].entries) = days_per_week
        /\ (pc' = "crashed") =>
              /\ CompletionLine \notin Range(out')
              /\ exit_status' # 0
        /\ (pc = "crashed") => (pc' = "crashed" /\ calls' = calls /\ out' = out)
        /\ (CompletionLine \in Range(out')) => Len(calls') = Max(args.count, 0)
      ]_vars

C7_Witness ==
    /\ pc = "crashed"
    /\ args.count = 2
    /\ Len(calls) = 1
    /\ days_per_week = 2
    /\ \E p \in DOMAIN fs : Len(fs[p].entries) = 1

(***************************************************************************)
(* C4: when the start date is not a valid YYYY-MM-DD date the program      *)
(* reports the error, generates nothing, writes no file or directory, and  *)
(* terminates with a non-zero exit status.                                 *)
(***************************************************************************)
C4_InvalidDateExitsNonZero ==
    (Terminated /\ ~Strptime(args.start_date).ok) =>
        /\ ErrorLine \in Range(out)
        /\ calls = <<>>
        /\ dirs = {}
        /\ DOMAIN fs = {}
        /\ exit_status # 0

(***************************************************************************)
(* C5: if writing a weekly archive fails partway, no file exists           *)
(* afterwards at that week's final path.                                   *)
(***************************************************************************)
C5_NoPartialArchive ==
    (pc = "crashed" /\ calls # <<>> /\ current_date >= week_start_date) =>
        master_zip_path \notin DOMAIN fs

(***************************************************************************)
(* C6: a week count of 0 or less is a configuration error: the run is      *)
(* aborted before any generation, nothing is created in the output         *)
(* directory, completion is not reported, and the exit status is non-zero. *)
(***************************************************************************)
C6_NonPositiveCountRejected ==
    (Terminated /\ Strptime(args.start_date).ok /\ args.count <= 0) =>
        /\ CompletionLine \notin Range(out)
        /\ calls = <<>>
        /\ DOMAIN fs = {}
        /\ exit_status # 0

(***************************************************************************)
(* C2: all the events of a daily archive have timestamps within the        *)
(* archive's calendar day, whatever parts_per_day, events_per_part and the *)
(* random time steps are.                                                  *)
(***************************************************************************)
C2_WithinDay ==
    \A x \in DailyWithDate :
        \A e \in Range(EventsOfDay(x.zip)) :
            <<e.timestamp[1], e.timestamp[2], e.timestamp[3]>> = Ord2Ymd(x.date)

(***************************************************************************)
(* C8: the weekly archive is named after the ISO week number of the week's *)
(* start date. Two weeks from 2023-12-28 leave exactly events_week_52.zip  *)
(* and events_week_1.zip; one week from 2023-10-23 leaves exactly          *)
(* events_week_43.zip with the entries events_2023-10-23.zip to            *)
(* events_2023-10-29.zip.                                                  *)
(***************************************************************************)
C8_IsoWeekNames ==
    /\ (pc = "exited" /\ args.start_date = Chars_2023_12_28 /\ args.count = 2) =>
          DOMAIN fs = {"data/events_week_52.zip", "data/events_week_1.zip"}
    /\ (pc = "exited" /\ args.start_date = Chars_2023_10_23 /\ args.count = 1) =>
          /\ DOMAIN fs = {"data/events_week_43.zip"}
          /\ [k \in DOMAIN fs["data/events_week_43.zip"].entries |->
                 fs["data/events_week_43.zip"].entries[k].name]
             = <<"events_2023-10-23.zip", "events_2023-10-24.zip",
                 "events_2023-10-25.zip", "events_2023-10-26.zip",
                 "events_2023-10-27.zip", "events_2023-10-28.zip",
                 "events_2023-10-29.zip">>

C8_Witness ==
    /\ pc = "exited"
    /\ args.start_date = Chars_2023_12_28
    /\ args.count = 2
    /\ Cardinality(DOMAIN fs) = 2
    /\ \A p \in DOMAIN fs : Len(fs[p].entries) = 7

(***************************************************************************)
(* C3, as claimed: a completed run of num_weeks >= 1 weeks into an empty   *)
(* output directory leaves exactly num_weeks weekly archives, for any      *)
(* start date.                                                             *)
(***************************************************************************)
C3_OneFilePerWeek ==
    (pc = "exited" /\ Strptime(args.start_date).ok /\ args.count >= 1) =>
        Cardinality(DOMAIN fs) = args.count

(***************************************************************************)
(* C3, amended: a completed run of 1 to 52 weeks into an empty output      *)
(* directory leaves exactly num_weeks weekly archives, each named          *)
(* events_week_{W}.zip for the ISO week W of one of the processed weeks.   *)
(***************************************************************************)
C3_OneFilePerWeekWithinAYear ==
    (pc = "exited" /\ Strptime(args.start_date).ok /\ args.count \in 1..52) =>
        /\ Cardinality(DOMAIN fs) = args.count
        /\ \A p \in DOMAIN fs : \E k \in DOMAIN calls :
              p = "data/events_week_" \o ToString(IsoCalendar(calls[k])[2]) \o ".zip"

C3_Witness ==
    /\ pc = "exited"
    /\ args.count = 52
    /\ Cardinality(DOMAIN fs) = 52
====
